---- MODULE Spec2Model ----
(***************************************************************************)
(* Viewport-synchronised incident visibility and selection of the Wave     *)
(* Traffic app.  The repository holds three drafts of the App component    *)
(* that the claims cite:                                                   *)
(*   "part_001" : src/unnamed/part_001 (imperative info window, list click)*)
(*   "App_1"    : src/src/App.jsx 1-291   (flushSync, <InfoWindowF>)       *)
(*   "App_2"    : src/src/App.jsx 293-544 (flushSync, unguarded bounds)    *)
(* (src/src/App.jsx 546-707 has the handlers of App_2 and no labels.)      *)
(* Text is modelled as sequences of one-character strings, coordinates in  *)
(* tenths of a degree.  The store is read from incidents.json, well-formed *)
(* or with one unparseable latitude.  Spec is the program with the events  *)
(* its widgets deliver; SpecStale adds the click of a marker whose record  *)
(* is no longer in the store.                                              *)
(***************************************************************************)
EXTENDS Integers, Sequences, FiniteSets, TLC

(***************************** bounds **************************************)
NumIncidents == 2      \* incidents of the store (prefix of AllIncidents)
NumViewports == 3      \* viewports the widget can report (prefix of Viewports)
MaxZoom == 15          \* largest zoom level a gesture or fit can reach
MaxText == 2           \* longest title or description of the texts tried on escape

(************************ program constants ********************************)
InitialZoom == 10
ZoomThreshold == 14

Variants == {"part_001", "App_1", "App_2"}

(***************************** text ****************************************)
Digits == <<"0", "1", "2", "3", "4", "5", "6", "7", "8", "9">>
LowerSeq == <<"a", "b", "c", "d", "e", "f", "g", "h", "i", "j", "k", "l", "m",
              "n", "o", "p", "q", "r", "s", "t", "u", "v", "w", "x", "y", "z">>
UpperSeq == <<"A", "B", "C", "D", "E", "F", "G", "H", "I", "J", "K", "L", "M",
              "N", "O", "P", "Q", "R", "S", "T", "U", "V", "W", "X", "Y", "Z">>

Range(s) == {s[k] : k \in DOMAIN s}
IndexOf(c, s) == CHOOSE k \in DOMAIN s : s[k] = c
DigitSet == Range(Digits)
LowerSet == Range(LowerSeq)
PlainSet == Range(Digits) \cup Range(LowerSeq) \cup Range(UpperSeq) \cup {" "}
IsDigit(c) == c \in DigitSet
DigitVal(c) == IndexOf(c, Digits) - 1

\* String.prototype.toUpperCase on one character.
ToUpperCase(c) == IF c \in LowerSet THEN UpperSeq[IndexOf(c, LowerSeq)] ELSE c

\* Number -> decimal string.
RECURSIVE NumToChars(_)
NumToChars(n) == IF n < 10 THEN <<Digits[n + 1]>>
                 ELSE NumToChars(n \div 10) \o <<Digits[(n % 10) + 1]>>

\* charCodeAt(0) for the characters of the data that are outside [0-9A-Za-z ].
CharCode(c) == CASE c = "_" -> 95
                 [] c = "&" -> 38
                 [] c = "<" -> 60
                 [] c = ">" -> 62
                 [] c = "'" -> 39
                 [] c = "\"" -> 34
                 [] c = "." -> 46
                 [] c = "-" -> 45
                 [] OTHER -> 63

\* The complement of the character class [^0-9A-Za-z ].
IsPlain(c) == c \in PlainSet

\* Mutant: the character class also lets the quote characters through.
RECURSIVE escape_keepsQuotes(_)
escape_keepsQuotes(s) ==
    IF s = <<>> THEN <<>>
    ELSE (IF IsPlain(Head(s)) \/ Head(s) \in {"'", "\""} THEN <<Head(s)>>
          ELSE <<"&", "#">> \o NumToChars(CharCode(Head(s))) \o <<";">>)
         \o escape_keepsQuotes(Tail(s))

\* s.replace(/[^0-9A-Za-z ]/g, (c) => "&#" + c.charCodeAt(0) + ";")
RECURSIVE escape(_)
escape(s) == IF s = <<>> THEN <<>>
             ELSE (IF IsPlain(Head(s)) THEN <<Head(s)>>
                   ELSE <<"&", "#">> \o NumToChars(CharCode(Head(s))) \o <<";">>)
                  \o escape(Tail(s))

(*************************** number parsing ********************************)
\* A parsed number: nan, or a value (NaN is never equal to or ordered with
\* anything).
NaN == [nan |-> TRUE, val |-> 0]
Num(v) == [nan |-> FALSE, val |-> v]

\* Number of consecutive digits of s from position k on.
RECURSIVE DigitRun(_, _)
DigitRun(s, k) == IF k <= Len(s) /\ IsDigit(s[k]) THEN 1 + DigitRun(s, k + 1) ELSE 0

\* Value of the n digits of s from position k on.
RECURSIVE DigitsValue(_, _, _)
DigitsValue(s, k, n) == IF n = 0 THEN 0
                        ELSE DigitsValue(s, k, n - 1) * 10 + DigitVal(s[k + n - 1])

\* Leading white space to skip.
RECURSIVE SkipSpace(_, _)
SkipSpace(s, k) == IF k <= Len(s) /\ s[k] = " " THEN SkipSpace(s, k + 1) ELSE k

\* parseFloat: optional white space, optional sign, digits, optional
\* fraction; the longest numeric prefix is used, NaN when there is none.
\* The result is in tenths: the data carries at most one fractional digit.
parseFloat(s) ==
    LET k0 == SkipSpace(s, 1)
        neg == k0 <= Len(s) /\ s[k0] = "-"
        k1 == IF k0 <= Len(s) /\ s[k0] \in {"-", "+"} THEN k0 + 1 ELSE k0
        n1 == DigitRun(s, k1)
        dot == k1 + n1 <= Len(s) /\ s[k1 + n1] = "."
        n2 == IF dot THEN DigitRun(s, k1 + n1 + 1) ELSE 0
        whole == DigitsValue(s, k1, n1)
        frac == IF n2 >= 1 THEN DigitVal(s[k1 + n1 + 1]) ELSE 0
        mag == whole * 10 + frac
    IN  IF n1 = 0 /\ n2 = 0 THEN NaN
        ELSE Num(IF neg THEN 0 - mag ELSE mag)

\* parseInt (radix 10): optional white space, optional sign, digits.
parseInt(s) ==
    LET k0 == SkipSpace(s, 1)
        neg == k0 <= Len(s) /\ s[k0] = "-"
        k1 == IF k0 <= Len(s) /\ s[k0] \in {"-", "+"} THEN k0 + 1 ELSE k0
        n1 == DigitRun(s, k1)
        mag == DigitsValue(s, k1, n1)
    IN  IF n1 = 0 THEN NaN ELSE Num(IF neg THEN 0 - mag ELSE mag)

(************************** alert types ************************************)
tow_allocation == <<"t", "o", "w", "_", "a", "l", "l", "o", "c", "a", "t", "i", "o", "n">>
roadworks == <<"r", "o", "a", "d", "w", "o", "r", "k", "s">>
event == <<"e", "v", "e", "n", "t">>
emergency == <<"e", "m", "e", "r", "g", "e", "n", "c", "y">>
alert == <<"a", "l", "e", "r", "t">>
AlertTypes == {tow_allocation, roadworks, event, emergency, alert}

\* Mutant: the tow_allocation case is missing, every tag takes the generic rule.
formatAlertType_generic(a) ==
    (IF a = <<>> THEN <<>> ELSE <<ToUpperCase(a[1])>>) \o
    (IF a = <<>> THEN <<>> ELSE Tail(a))

\* formatAlertType
formatAlertType(a) ==
    IF a = tow_allocation
    THEN <<"T", "o", "w", " ", "A", "l", "l", "o", "c", "a", "t", "i", "o", "n">>
    ELSE (IF a = <<>> THEN <<>> ELSE <<ToUpperCase(a[1])>>) \o
         (IF a = <<>> THEN <<>> ELSE Tail(a))

(***************************** data ****************************************)
\* incidents.json: records with id, alert_type, title, description, lat,
\* long (all strings); marker is the handle attached by handleMapLoad
\* (0: not attached).
Incident(id, a, t, d, la, lo) ==
    [id |-> id, alert_type |-> a, title |-> t, description |-> d,
     lat |-> la, long |-> lo, marker |-> 0]

AllIncidents ==
    << Incident(<<"1">>, tow_allocation, <<"A", "&", "B">>, <<"x">>, <<"1">>, <<"-", "1">>),
       Incident(<<"2">>, roadworks, <<"<", "b", ">">>, <<"i", "t", "'", "s">>,
                <<"2", ".", "5">>, <<"1", ".", "0">>),
       Incident(<<"3">>, emergency, <<"M", "1">>, <<"n", "o", ".", "3">>,
                <<"-", "3">>, <<"2">>),
       Incident(<<"4">>, event, <<"F", "u", "n">>, <<"a", "-", "b">>,
                <<" ", "1", ".", "5">>, <<"-", "2">>) >>

incidentsJSON == SubSeq(AllIncidents, 1, NumIncidents)

\* The same file with a latitude that parseFloat cannot read on its first
\* record.
malformedJSON == [incidentsJSON EXCEPT ![1].lat = <<"n", "a">>]
Datasets == {incidentsJSON, malformedJSON}

\* Files of one record whose title and description are any text of at most
\* MaxText characters, markup and quote characters included.
TextAlphabet == {"a", "<", ">", "&", "\""}
Texts == UNION {[1 .. n -> TextAlphabet] : n \in 0 .. MaxText}
TextDatasets ==
    { << Incident(<<"1">>, a, t, d, <<"1">>, <<"-", "1">>) >> :
         a \in {tow_allocation, event}, t \in Texts, d \in Texts }

\* Bounding regions the map widget can report (south, north, west, east in
\* tenths of a degree).  The first one is the result of fitBounds over the
\* whole store.
Box(s, n, w, e) == [south |-> s, north |-> n, west |-> w, east |-> e]
Viewports ==
    << Box(0 - 40, 40, 0 - 30, 30),        \* every incident
       Box(0 - 30, 30, 5, 25),             \* incidents 2 and 3
       Box(50, 60, 50, 60),                \* no incident
       Box(10, 20, 0 - 10, 0 - 5),         \* incident 1, on the boundary
       Box(5, 30, 0 - 15, 15),             \* incidents 1 and 2
       Box(0 - 35, 0 - 25, 15, 25) >>      \* incident 3

\* LatLngBounds.contains on a {lat, lng} literal: closed on every side;
\* a comparison with NaN is false.
contains(b, lat, lng) ==
    /\ ~lat.nan /\ ~lng.nan
    /\ b.south <= lat.val /\ lat.val <= b.north
    /\ b.west <= lng.val /\ lng.val <= b.east

\* Both coordinates of the record parse to a number.
Finite(inc) == ~parseFloat(inc.lat).nan /\ ~parseFloat(inc.long).nan

\* A {lat, lng} literal with NaN handed to the maps library (bounds.extend,
\* bounds.contains): the library either rejects it with an InvalidValueError
\* or computes with it, depending on its release.
MayReject(incs) == \E k \in DOMAIN incs : ~Finite(incs[k])

\* Mutant: latitude and longitude handed over in the wrong order.
computeVisible_swapped(incs, b) ==
    SelectSeq([k \in 1 .. Len(incs) |-> k],
              LAMBDA k : contains(b, parseFloat(incs[k].long), parseFloat(incs[k].lat)))

\* Mutant: the result is built by prepending (unshift), so it comes out reversed.
computeVisible_reversed(incs, b) ==
    LET f == SelectSeq([k \in 1 .. Len(incs) |-> k],
                       LAMBDA k : contains(b, parseFloat(incs[k].lat), parseFloat(incs[k].long)))
    IN  [k \in 1 .. Len(f) |-> f[Len(f) + 1 - k]]

\* incidents.filter((incident) => bounds.contains({lat: parseFloat(..), lng: parseFloat(..)}))
\* The result holds references to store entries: indices into the store.
computeVisible(incs, b) ==
    SelectSeq([k \in 1 .. Len(incs) |-> k],
              LAMBDA k : contains(b, parseFloat(incs[k].lat), parseFloat(incs[k].long)))

(***************************** state ***************************************)
VARIABLES
    variant,                \* which draft of the component runs
    incidents,              \* the incident store (module-level const incidents)
    map,                    \* useState map: 0 (null) or 1 (the widget)
    loaded,                 \* onLoad was delivered (the widget mounts once)
    fitTimer,               \* the 500ms setTimeout of handleMapLoad is pending
    fitRequested,           \* map.fitBounds was called, the widget has not settled yet
    viewport,               \* map.getBounds(): 0 (undefined) or an index of Viewports
    zoom,                   \* map.getZoom()
    visibleIncidents,       \* useState visibleIncidents
    selectedIncident,       \* useState selectedIncident: 0 (null) or a store index
    isIncidentListVisible,  \* useState isIncidentListVisible
    infoWindow,             \* useRef infoWindow (part_001)
    pendingChecks,          \* isElementInScrollView promises not yet resolved
    pc,                     \* "ready", or "flushed" inside handleMarkerClick after flushSync
    clickArg,               \* the incident of the marker click in progress (0: none)
    prevSelected,           \* selectedIncident when the marker click in progress began
    view,                   \* the last committed render
    out,                    \* what the last event produced
    lastEvent               \* the last event handled

vars == << variant, incidents, map, loaded, fitTimer, fitRequested, viewport, zoom,
           visibleIncidents, selectedIncident, isIncidentListVisible, infoWindow,
           pendingChecks, pc, clickArg, prevSelected, view, out, lastEvent >>

Stored == 1 .. Len(incidents)

NoContent == [h2 |-> <<>>, h3 |-> <<>>, p |-> <<>>]
NoInfoWindow == [created |-> FALSE, open |-> FALSE, anchor |-> 0, content |-> NoContent]
NoDetail == [shown |-> FALSE, anchor |-> 0, h2 |-> <<>>, h3 |-> <<>>, p |-> <<>>]
NoOut == [render |-> FALSE, effect |-> FALSE, scrollTo |-> 0, panTo |-> 0,
          setZoom |-> 0, threw |-> FALSE]

\* Mutant: the singular is also used for an empty list (length <= 1).
CountLabel_atMostOne(n) ==
    << NumToChars(n), " incident", IF n <= 1 THEN "" ELSE "s", " shown." >>

\* {visibleIncidents.length} incident{visibleIncidents.length === 1 ? "" : "s"} shown.
CountLabel(n) == << NumToChars(n), " incident", IF n = 1 THEN "" ELSE "s", " shown." >>

\* The drawer button text.
ButtonLabel(var, n, drawer) ==
    IF var = "App_2"
    THEN << IF drawer THEN "Hide" ELSE "Show", " Incidents" >>
    ELSE IF drawer THEN << "Close", "" >>
         ELSE << "View Incident", IF n = 1 THEN "" ELSE "s" >>

\* One <li> of the list.
\* A record that is not in incidents.json although a marker with a click
\* listener for it is still on the map, and the value that stands for it in
\* selectedIncident.
StaleIncident ==
    [id |-> <<"9">>, alert_type |-> alert, title |-> <<"O", "l", "d">>,
     description |-> <<"g", "o", "n", "e">>, lat |-> <<"0">>, long |-> <<"0">>,
     marker |-> 9]
StaleRef(incs) == Len(incs) + 1

\* The record a selection refers to.
At(incs, i) == IF i \in DOMAIN incs THEN incs[i] ELSE StaleIncident

\* Mutant: the highlight forgets to compare the row's id with the selection's.
Row_highlightEvery(var, incs, sel, i) ==
    [key |-> incs[i].id,
     className |-> IF var # "App_2" /\ sel # 0 THEN "selected" ELSE "",
     h2 |-> formatAlertType(incs[i].alert_type),
     p |-> incs[i].title]

Row(var, incs, sel, i) ==
    [key |-> incs[i].id,
     className |-> IF var # "App_2" /\ sel # 0 /\ At(incs, sel).id = incs[i].id
                   THEN "selected" ELSE "",
     h2 |-> formatAlertType(incs[i].alert_type),
     p |-> incs[i].title]

\* The declarative <InfoWindow> of the App.jsx drafts.
Detail(var, incs, sel) ==
    IF var # "part_001" /\ sel # 0
    THEN [shown |-> TRUE, anchor |-> At(incs, sel).marker,
          h2 |-> formatAlertType(At(incs, sel).alert_type),
          h3 |-> At(incs, sel).title, p |-> At(incs, sel).description]
    ELSE NoDetail

\* The component's render output.
Render(var, incs, vis, sel, drawer) ==
    [label |-> CountLabel(Len(vis)),
     heading |-> IF var = "App_2" THEN << <<>>, "Incidents", "", "" >> ELSE CountLabel(Len(vis)),
     button |-> ButtonLabel(var, Len(vis), drawer),
     drawerClass |-> IF drawer THEN "visible" ELSE "",
     rows |-> [k \in 1 .. Len(vis) |-> Row(var, incs, sel, vis[k])],
     detail |-> Detail(var, incs, sel)]

\* incidentListItemRefs.current[parseInt(incident.id)] is set for the rows of
\* the committed list (and reset to null when the row unmounts).
HasRow(incs, vis, i) ==
    \E k \in DOMAIN vis : parseInt(incs[vis[k]].id) = parseInt(At(incs, i).id)

\* setInfoWindowContent
InfoWindowContent(inc) ==
    [h2 |-> escape(formatAlertType(inc.alert_type)),
     h3 |-> escape(inc.title),
     p |-> escape(inc.description)]

(***************************** initial state *******************************)
ZoomLevels == {InitialZoom} \cup (ZoomThreshold .. MaxZoom)

InitWith(drafts, files) ==
    /\ variant \in drafts
    /\ incidents \in files
    /\ map = 0
    /\ loaded = FALSE
    /\ fitTimer = FALSE
    /\ fitRequested = FALSE
    /\ viewport = 0
    /\ zoom = InitialZoom
    /\ visibleIncidents = <<>>
    /\ selectedIncident = 0
    /\ isIncidentListVisible = FALSE
    /\ infoWindow = NoInfoWindow
    /\ pendingChecks = {}
    /\ pc = "ready"
    /\ clickArg = 0
    /\ prevSelected = 0
    /\ view = Render(variant, incidents, <<>>, 0, FALSE)
    /\ out = NoOut
    /\ lastEvent = "init"

Init == InitWith(Variants, Datasets)

(************************ React commit and effect **************************)
\* The end of a handler: the queued state updates are applied, the component
\* re-renders when a state value changed (Object.is), and the scroll effect
\* runs when one of its dependencies changed.  visNew: setVisibleIncidents
\* was called (filter always returns a new array).  mapChanged: setMap was
\* called with another value.  pan, zm, threw: the calls the handler made on
\* the map widget and whether it threw.
Commit(sel2, vis2, visNew, drawer2, mapChanged, incs2, pan, zm, threw) ==
    LET render == \/ sel2 # selectedIncident
                  \/ visNew
                  \/ drawer2 # isIncidentListVisible
                  \/ mapChanged
        depsChanged == \/ sel2 # selectedIncident
                       \/ visNew
                       \/ variant = "part_001" /\ drawer2 # isIncidentListVisible
        effect == /\ render /\ depsChanged
                  /\ variant \in {"part_001", "App_1"}
                  /\ sel2 # 0
                  /\ HasRow(incs2, vis2, sel2)
    IN  /\ selectedIncident' = sel2
        /\ visibleIncidents' = vis2
        /\ isIncidentListVisible' = drawer2
        /\ view' = IF render THEN Render(variant, incs2, vis2, sel2, drawer2) ELSE view
        /\ pendingChecks' = IF effect /\ variant = "part_001"
                            THEN pendingChecks \cup {sel2} ELSE pendingChecks
        /\ out' = [render |-> render, effect |-> effect,
                   scrollTo |-> IF effect /\ variant = "App_1" THEN sel2 ELSE 0,
                   panTo |-> pan, setZoom |-> zm, threw |-> threw]

(****************************** map widget *********************************)
\* Mutant: the markers are attached while walking incidents.reverse(), which
\* reverses the store in place.
AttachMarkers_reversed(incs) ==
    [k \in 1 .. Len(incs) |-> [incs[Len(incs) + 1 - k] EXCEPT !.marker = k]]

\* incident.marker = marker, for every incident of the store.
AttachMarkers(incs) ==
    [k \in 1 .. Len(incs) |-> [incs[k] EXCEPT !.marker = k]]

\* onLoad
handleMapLoad ==
    /\ pc = "ready" /\ map = 0 /\ ~loaded
    /\ map' = 1
    /\ loaded' = TRUE
    /\ infoWindow' = IF variant = "part_001"
                     THEN [NoInfoWindow EXCEPT !.created = TRUE] ELSE infoWindow
    /\ fitTimer' = (variant # "App_2")
    /\ viewport' = 0
    /\ zoom' = InitialZoom
    /\ \/ /\ fitRequested' = (variant = "App_2")
          /\ incidents' = AttachMarkers(incidents)
          /\ Commit(selectedIncident, visibleIncidents, FALSE, isIncidentListVisible,
                    TRUE, AttachMarkers(incidents), 0, 0, FALSE)
       \/ \* App_2 extends the bounds here, before it creates the markers
          /\ variant = "App_2" /\ MayReject(incidents)
          /\ fitRequested' = FALSE
          /\ incidents' = incidents
          /\ Commit(selectedIncident, visibleIncidents, FALSE, isIncidentListVisible,
                    TRUE, incidents, 0, 0, TRUE)
    /\ lastEvent' = "mapLoad"
    /\ UNCHANGED << variant, pc, clickArg, prevSelected >>

\* The setTimeout callback of handleMapLoad: map.fitBounds(bounds).
fitBoundsTimeout ==
    /\ pc = "ready" /\ fitTimer
    /\ fitTimer' = FALSE
    /\ \/ fitRequested' = TRUE /\ out' = NoOut
       \/ /\ MayReject(incidents)
          /\ fitRequested' = FALSE /\ out' = [NoOut EXCEPT !.threw = TRUE]
    /\ lastEvent' = "fitTimeout"
    /\ UNCHANGED << variant, incidents, map, loaded, viewport, zoom, visibleIncidents,
                    selectedIncident, isIncidentListVisible, infoWindow, pendingChecks,
                    pc, clickArg, prevSelected, view >>

\* The widget settles on the bounds it was asked to fit (on some bounds when
\* the bounds were extended with NaN).
fitApplied ==
    /\ pc = "ready" /\ map # 0 /\ fitRequested
    /\ fitRequested' = FALSE
    /\ viewport' \in (IF MayReject(incidents) THEN 1 .. NumViewports ELSE {1})
    /\ \E z \in ZoomLevels : zoom' = z
    /\ out' = NoOut
    /\ lastEvent' = "fitApplied"
    /\ UNCHANGED << variant, incidents, map, loaded, fitTimer, visibleIncidents,
                    selectedIncident, isIncidentListVisible, infoWindow, pendingChecks,
                    pc, clickArg, prevSelected, view >>

\* A pan or a zoom gesture of the user on an initialised map.
userGesture ==
    /\ pc = "ready" /\ map # 0 /\ viewport # 0
    /\ \E v \in 1 .. NumViewports, z \in ZoomLevels :
          /\ (v = viewport) # (z = zoom)
          /\ viewport' = v
          /\ zoom' = z
    /\ out' = NoOut
    /\ lastEvent' = "gesture"
    /\ UNCHANGED << variant, incidents, map, loaded, fitTimer, fitRequested,
                    visibleIncidents, selectedIncident, isIncidentListVisible,
                    infoWindow, pendingChecks, pc, clickArg, prevSelected, view >>

\* onUnmount.  The timer of the unmounted widget no longer matters.
handleMapUnmount ==
    /\ pc = "ready" /\ map # 0
    /\ map' = 0
    /\ viewport' = 0
    /\ fitTimer' = FALSE
    /\ fitRequested' = FALSE
    /\ Commit(selectedIncident, visibleIncidents, FALSE, isIncidentListVisible, TRUE,
              incidents, 0, 0, FALSE)
    /\ lastEvent' = "mapUnmount"
    /\ UNCHANGED << variant, incidents, loaded, zoom, infoWindow, pc, clickArg, prevSelected >>

(****************************** viewport filter ****************************)
\* Does updateList return before filtering?  (App_2 has no guard on bounds.)
updateListSkips == map = 0 \/ (variant # "App_2" /\ viewport = 0)

\* Mutant: the recompute also drops a selection whose incident has left the
\* list.
updateList_dropsHiddenSelection ==
    /\ pc = "ready"
    /\ IF updateListSkips \/ viewport = 0
       THEN Commit(selectedIncident, visibleIncidents, FALSE, isIncidentListVisible,
                   FALSE, incidents, 0, 0, ~updateListSkips)
       ELSE LET vis2 == computeVisible(incidents, Viewports[viewport])
                keep == \E k \in DOMAIN vis2 : vis2[k] = selectedIncident
            IN  Commit(IF keep THEN selectedIncident ELSE 0, vis2, TRUE,
                       isIncidentListVisible, FALSE, incidents, 0, 0, FALSE)
    /\ lastEvent' = "idle"
    /\ UNCHANGED << variant, incidents, map, loaded, fitTimer, fitRequested, viewport,
                    zoom, infoWindow, pc, clickArg, prevSelected >>

\* onIdle.  The notification comes from the widget; the handler guards.
updateList ==
    /\ pc = "ready"
    /\ IF updateListSkips
       THEN Commit(selectedIncident, visibleIncidents, FALSE, isIncidentListVisible,
                   FALSE, incidents, 0, 0, FALSE)
       ELSE IF viewport = 0
            THEN \* bounds.contains on undefined: TypeError
                 Commit(selectedIncident, visibleIncidents, FALSE, isIncidentListVisible,
                        FALSE, incidents, 0, 0, TRUE)
            ELSE \/ Commit(selectedIncident,
                           computeVisible(incidents, Viewports[viewport]),
                           TRUE, isIncidentListVisible, FALSE, incidents, 0, 0, FALSE)
                 \/ \* bounds.contains rejects a NaN literal: the filter throws
                    /\ MayReject(incidents)
                    /\ Commit(selectedIncident, visibleIncidents, FALSE,
                              isIncidentListVisible, FALSE, incidents, 0, 0, TRUE)
    /\ lastEvent' = "idle"
    /\ UNCHANGED << variant, incidents, map, loaded, fitTimer, fitRequested, viewport,
                    zoom, infoWindow, pc, clickArg, prevSelected >>

(**************************** selection handlers ***************************)
Position(inc) == [lat |-> parseFloat(inc.lat), lng |-> parseFloat(inc.long)]

\* A marker can be clicked once it is created and drawn; a marker at
\* LatLng(NaN, NaN) is not drawn.
MarkerShown(inc) == inc.marker # 0 /\ Finite(inc)

\* infoWindow.current.open({anchor: incident.marker, map}) after
\* setInfoWindowContent(incident).
OpenInfoWindow(inc) ==
    [created |-> TRUE, open |-> TRUE, anchor |-> inc.marker,
     content |-> InfoWindowContent(inc)]

\* Mutant: the marker click also closes the drawer, as the list click does.
handleMarkerClick_closesDrawer(i) ==
    /\ pc = "ready" /\ variant = "part_001"
    /\ map # 0 /\ MarkerShown(incidents[i])
    /\ infoWindow' = OpenInfoWindow(incidents[i])
    /\ Commit(i, visibleIncidents, FALSE, FALSE, FALSE, incidents, 0, 0, FALSE)
    /\ lastEvent' = "markerClick"
    /\ UNCHANGED << variant, incidents, map, loaded, fitTimer, fitRequested, viewport,
                    zoom, pc, clickArg, prevSelected >>

\* Marker click in part_001.
handleMarkerClick(i) ==
    /\ pc = "ready" /\ variant = "part_001"
    /\ map # 0 /\ MarkerShown(incidents[i])
    /\ infoWindow' = OpenInfoWindow(incidents[i])
    /\ Commit(i, visibleIncidents, FALSE, isIncidentListVisible, FALSE, incidents,
              0, 0, FALSE)
    /\ lastEvent' = "markerClick"
    /\ UNCHANGED << variant, incidents, map, loaded, fitTimer, fitRequested, viewport,
                    zoom, pc, clickArg, prevSelected >>

\* Mutant: the flushSync(() => setSelectedIncident(null)) line is missing.
handleMarkerClickFlushSync_noClear(i) ==
    /\ pc = "ready" /\ variant # "part_001"
    /\ map # 0 /\ MarkerShown(incidents[i])
    /\ pc' = "flushed"
    /\ clickArg' = i
    /\ prevSelected' = selectedIncident
    /\ Commit(selectedIncident, visibleIncidents, FALSE, isIncidentListVisible, FALSE,
              incidents, 0, 0, FALSE)
    /\ lastEvent' = "markerClick:flushSync"
    /\ UNCHANGED << variant, incidents, map, loaded, fitTimer, fitRequested, viewport,
                    zoom, infoWindow >>

\* Marker click in the App.jsx drafts, first half:
\* flushSync(() => setSelectedIncident(null)) renders synchronously.
handleMarkerClickFlushSync(i) ==
    /\ pc = "ready" /\ variant # "part_001"
    /\ map # 0 /\ MarkerShown(incidents[i])
    /\ pc' = "flushed"
    /\ clickArg' = i
    /\ prevSelected' = selectedIncident
    /\ Commit(0, visibleIncidents, FALSE, isIncidentListVisible, FALSE, incidents,
              0, 0, FALSE)
    /\ lastEvent' = "markerClick:flushSync"
    /\ UNCHANGED << variant, incidents, map, loaded, fitTimer, fitRequested, viewport,
                    zoom, infoWindow >>

\* Marker click in the App.jsx drafts, second half: setSelectedIncident(incident).
handleMarkerClickSet ==
    /\ pc = "flushed"
    /\ pc' = "ready"
    /\ clickArg' = 0
    /\ prevSelected' = 0
    /\ Commit(clickArg, visibleIncidents, FALSE, isIncidentListVisible, FALSE,
              incidents, 0, 0, FALSE)
    /\ lastEvent' = "markerClick"
    /\ UNCHANGED << variant, incidents, map, loaded, fitTimer, fitRequested, viewport,
                    zoom, infoWindow >>

\* Mutant: map.setZoom(14) without the comparison.
ZoomAfterListClick_always(z) == ZoomThreshold

\* The zoom after "if (map.getZoom() < 14) map.setZoom(14)".
ZoomAfterListClick(z) == IF z < ZoomThreshold THEN ZoomThreshold ELSE z

\* The argument of the setZoom call of the list click (0: no call).
SetZoomCall(z) == IF z < ZoomThreshold THEN ZoomThreshold ELSE 0

\* Mutant: a click on the row of the incident that is already selected
\* returns at once ("if (incident === selectedIncident) return").
handleIncidentListItemClick_skipSelected(i) ==
    /\ pc = "ready" /\ variant = "part_001"
    /\ \E k \in DOMAIN visibleIncidents : visibleIncidents[k] = i
    /\ IF map = 0
       THEN /\ Commit(i, visibleIncidents, FALSE, FALSE, FALSE, incidents, 0, 0, TRUE)
            /\ UNCHANGED << viewport, zoom, infoWindow >>
       ELSE IF selectedIncident = i
            THEN /\ Commit(i, visibleIncidents, FALSE, isIncidentListVisible, FALSE,
                           incidents, 0, 0, FALSE)
                 /\ UNCHANGED << viewport, zoom, infoWindow >>
            ELSE /\ zoom' = IF zoom < ZoomThreshold THEN ZoomThreshold ELSE zoom
                 /\ IF viewport = 0
                    THEN viewport' = 0
                    ELSE \E v \in 1 .. NumViewports :
                            /\ contains(Viewports[v], parseFloat(incidents[i].lat),
                                        parseFloat(incidents[i].long))
                            /\ viewport' = v
                 /\ infoWindow' = [created |-> TRUE, open |-> TRUE,
                                   anchor |-> incidents[i].marker,
                                   content |-> InfoWindowContent(incidents[i])]
                 /\ Commit(i, visibleIncidents, FALSE, FALSE, FALSE, incidents,
                           incidents[i].marker,
                           IF zoom < ZoomThreshold THEN ZoomThreshold ELSE 0, FALSE)
    /\ lastEvent' = "listClick"
    /\ UNCHANGED << variant, incidents, map, loaded, fitTimer, fitRequested, pc, clickArg,
                    prevSelected >>

\* Click on a row of the list (part_001 only: the drafts have no onClick).
handleIncidentListItemClick(i) ==
    /\ pc = "ready" /\ variant = "part_001"
    /\ \E k \in DOMAIN visibleIncidents : visibleIncidents[k] = i
    /\ IF map = 0
       THEN \* map.panTo on null: TypeError after the two state updates were queued
            /\ Commit(i, visibleIncidents, FALSE, FALSE, FALSE, incidents, 0, 0, TRUE)
            /\ UNCHANGED << viewport, zoom, infoWindow >>
       ELSE /\ zoom' = ZoomAfterListClick(zoom)
            /\ IF viewport = 0
               THEN viewport' = 0
               ELSE \E v \in 1 .. NumViewports :
                       /\ contains(Viewports[v], Position(incidents[i]).lat,
                                   Position(incidents[i]).lng)
                       /\ viewport' = v
            /\ infoWindow' = OpenInfoWindow(incidents[i])
            /\ Commit(i, visibleIncidents, FALSE, FALSE, FALSE, incidents,
                      incidents[i].marker, SetZoomCall(zoom), FALSE)
    /\ lastEvent' = "listClick"
    /\ UNCHANGED << variant, incidents, map, loaded, fitTimer, fitRequested, pc, clickArg, prevSelected >>

\* Is a close notification of the detail view deliverable?  part_001
\* registers the listener on the info window object at map load; the drafts
\* render <InfoWindow onCloseClick> only while an incident is selected.
CloseClickListening ==
    IF variant = "part_001" THEN infoWindow.created ELSE view.detail.shown

\* Mutant: the close handler also closes the list drawer.
handleInfoWindowCloseClick_closesDrawer ==
    /\ pc = "ready" /\ CloseClickListening
    /\ infoWindow' = [infoWindow EXCEPT !.open = FALSE]
    /\ Commit(0, visibleIncidents, FALSE, FALSE, FALSE, incidents, 0, 0, FALSE)
    /\ lastEvent' = "closeClick"
    /\ UNCHANGED << variant, incidents, map, loaded, fitTimer, fitRequested, viewport,
                    zoom, pc, clickArg, prevSelected >>

\* Mutant: the close handler does not clear the selection.
handleInfoWindowCloseClick_keepsSelection ==
    /\ pc = "ready" /\ CloseClickListening
    /\ infoWindow' = [infoWindow EXCEPT !.open = FALSE]
    /\ Commit(selectedIncident, visibleIncidents, FALSE, isIncidentListVisible, FALSE,
              incidents, 0, 0, FALSE)
    /\ lastEvent' = "closeClick"
    /\ UNCHANGED << variant, incidents, map, loaded, fitTimer, fitRequested, viewport,
                    zoom, pc, clickArg, prevSelected >>

\* closeclick / onCloseClick
handleInfoWindowCloseClick ==
    /\ pc = "ready" /\ CloseClickListening
    /\ infoWindow' = [infoWindow EXCEPT !.open = FALSE]
    /\ Commit(0, visibleIncidents, FALSE, isIncidentListVisible, FALSE, incidents,
              0, 0, FALSE)
    /\ lastEvent' = "closeClick"
    /\ UNCHANGED << variant, incidents, map, loaded, fitTimer, fitRequested, viewport,
                    zoom, pc, clickArg, prevSelected >>

\* The drawer button: setIsIncidentListVisible(!isIncidentListVisible)
toggleDrawer ==
    /\ pc = "ready"
    /\ Commit(selectedIncident, visibleIncidents, FALSE, ~isIncidentListVisible, FALSE,
              incidents, 0, 0, FALSE)
    /\ lastEvent' = "toggleDrawer"
    /\ UNCHANGED << variant, incidents, map, loaded, fitTimer, fitRequested, viewport,
                    zoom, infoWindow, pc, clickArg, prevSelected >>

\* A promise of isElementInScrollView resolves (part_001).  The closure holds
\* the incident selected when the effect ran; the row is looked up again in
\* incidentListItemRefs when the promise resolves.  Checks started for the
\* same incident are not told apart.
ScrollOutcome(i, isInView) ==
    IF isInView THEN NoOut
    ELSE IF HasRow(incidents, visibleIncidents, i)
         THEN [NoOut EXCEPT !.scrollTo = i]
         ELSE [NoOut EXCEPT !.threw = TRUE]

resolveVisibilityCheck(i) ==
    /\ pc = "ready" /\ i \in pendingChecks
    /\ pendingChecks' = pendingChecks \ {i}
    /\ \E isInView \in BOOLEAN : out' = ScrollOutcome(i, isInView)
    /\ lastEvent' = "visibilityCheck"
    /\ UNCHANGED << variant, incidents, map, loaded, fitTimer, fitRequested, viewport,
                    zoom, visibleIncidents, selectedIncident, isIncidentListVisible,
                    infoWindow, pc, clickArg, prevSelected, view >>

\* The click listener of a marker whose record is not in incidents (a marker
\* that outlived its record) calls handleMarkerClick of part_001 with that
\* record.
staleMarkerClick ==
    /\ pc = "ready" /\ variant = "part_001"
    /\ map # 0 /\ MarkerShown(StaleIncident)
    /\ infoWindow' = OpenInfoWindow(StaleIncident)
    /\ Commit(StaleRef(incidents), visibleIncidents, FALSE, isIncidentListVisible,
              FALSE, incidents, 0, 0, FALSE)
    /\ lastEvent' = "staleMarkerClick"
    /\ UNCHANGED << variant, incidents, map, loaded, fitTimer, fitRequested, viewport,
                    zoom, pc, clickArg, prevSelected >>

(****************************** specification ******************************)
Next ==
    \/ handleMapLoad
    \/ fitBoundsTimeout
    \/ fitApplied
    \/ userGesture
    \/ handleMapUnmount
    \/ updateList
    \/ \E i \in Stored : handleMarkerClick(i)
    \/ \E i \in Stored : handleMarkerClickFlushSync(i)
    \/ handleMarkerClickSet
    \/ \E i \in Stored : handleIncidentListItemClick(i)
    \/ handleInfoWindowCloseClick
    \/ toggleDrawer
    \/ \E i \in Stored : resolveVisibilityCheck(i)

Spec == Init /\ [][Next]_vars

\* The same program in an environment that can also deliver the click of a
\* stale marker.
NextStale == Next \/ staleMarkerClick
SpecStale == Init /\ [][NextStale]_vars

\* The component with the info window, on the files of TextDatasets: the
\* events that fill, open and close the info window.
InitEscape == InitWith({"part_001"}, TextDatasets)
NextEscape ==
    \/ handleMapLoad
    \/ \E i \in Stored : handleMarkerClick(i)
    \/ handleInfoWindowCloseClick
SpecEscape == InitEscape /\ [][NextEscape]_vars

(******************************* claims ************************************)
InVisible(i) == \E k \in DOMAIN visibleIncidents : visibleIncidents[k] = i

\* C1: after a viewport-settled event handled with an available viewport V,
\* an incident of the store is in the VisibleSet if and only if V contains
\* its parsed (latitude, longitude).
C1_VisibleIffContained ==
    (lastEvent = "idle" /\ map # 0 /\ viewport # 0 /\ ~out.threw) =>
        \A i \in Stored :
            InVisible(i) <=> contains(Viewports[viewport], parseFloat(incidents[i].lat),
                                      parseFloat(incidents[i].long))

\* C1 witness: an idle notification was handled with a viewport that covers
\* some incidents of the store and not others.
C1_Witness ==
    /\ lastEvent = "idle" /\ map # 0 /\ viewport # 0
    /\ visibleIncidents # <<>>
    /\ \E i \in Stored : ~InVisible(i)

\* C2: the VisibleSet is a subsequence of the store: its entries are store
\* entries, none occurs twice, and they come in store order.
C2_VisibleIsSubsequence ==
    /\ \A k \in DOMAIN visibleIncidents : visibleIncidents[k] \in Stored
    /\ \A j, k \in DOMAIN visibleIncidents :
          j < k => visibleIncidents[j] < visibleIncidents[k]
    /\ \A j, k \in DOMAIN visibleIncidents :
          j # k => incidents[visibleIncidents[j]].id # incidents[visibleIncidents[k]].id

\* C2 witness: a filtered VisibleSet with at least two incidents.
C2_Witness ==
    /\ lastEvent = "idle" /\ out.render
    /\ Len(visibleIncidents) >= 2

\* A step from Selected(A) straight to Selected(B), A # B.
DirectStep ==
    /\ selectedIncident # 0
    /\ selectedIncident' # 0
    /\ selectedIncident' # selectedIncident

\* C3 as stated: selecting A and then B # A, by marker click or list click,
\* always passes through Unselected; there is never a step from Selected(A)
\* straight to Selected(B).
C3_NeverDirect == [][~DirectStep]_vars

\* C3 amended: in the src/src/App.jsx drafts (marker click with flushSync)
\* there is never a step from Selected(A) straight to Selected(B); in
\* part_001 the selection reaches Unselected only through the close
\* notification (a click sets Selected(B) in one step).
C3_ThroughUnselectedInDrafts ==
    [][ /\ variant # "part_001" => ~DirectStep
        /\ (variant = "part_001" /\ selectedIncident # 0 /\ selectedIncident' = 0)
              => lastEvent' = "closeClick" ]_vars

\* C3 witness: a marker click on B in a draft, after the flushSync render:
\* A was selected, nothing is selected now, B is about to be.
C3_Witness ==
    /\ variant # "part_001" /\ pc = "flushed"
    /\ prevSelected # 0 /\ clickArg # 0 /\ clickArg # prevSelected
    /\ selectedIncident = 0 /\ ~view.detail.shown

\* C4 as stated: a click (marker or list) on the incident that is already
\* selected first clears the selection (Selected(A) -> Unselected) before it
\* sets it again, and a list click re-centres the map.
C4_ReclickClearsFirst ==
    [][ \A i \in Stored :
          /\ (selectedIncident = i /\ (\/ handleMarkerClick(i)
                                       \/ handleMarkerClickFlushSync(i)
                                       \/ handleIncidentListItemClick(i)))
                => selectedIncident' = 0
          /\ (selectedIncident = i /\ map # 0 /\ handleIncidentListItemClick(i))
                => out'.panTo = incidents[i].marker ]_vars

\* C4 amended: in the src/src/App.jsx drafts a marker click on the selected
\* incident A runs Selected(A) -> Unselected -> Selected(A), unmounting and
\* mounting the detail view; in part_001 a click on A leaves Selected(A) in
\* place without passing through Unselected (a marker click causes no
\* re-render), opens the info window on A's marker with A's content again,
\* and a list click with a stored map pans to A's marker again.
C4_ReclickPerVariant ==
    [][ \A i \in Stored :
          /\ (selectedIncident = i /\ handleMarkerClickFlushSync(i))
                => (selectedIncident' = 0 /\ ~view'.detail.shown /\ pc' = "flushed")
          /\ (pc = "flushed" /\ clickArg = i /\ handleMarkerClickSet)
                => /\ selectedIncident' = i
                   /\ view'.detail.shown
                   /\ view'.detail.anchor = incidents[i].marker
          /\ (selectedIncident = i /\ handleMarkerClick(i))
                => /\ selectedIncident' = i
                   /\ ~out'.render
                   /\ infoWindow'.open
                   /\ infoWindow'.anchor = incidents[i].marker
                   /\ infoWindow'.content = InfoWindowContent(incidents[i])
          /\ (selectedIncident = i /\ map # 0 /\ handleIncidentListItemClick(i))
                => /\ selectedIncident' = i
                   /\ out'.panTo = incidents[i].marker
                   /\ infoWindow'.open
                   /\ infoWindow'.anchor = incidents[i].marker
                   /\ infoWindow'.content = InfoWindowContent(incidents[i]) ]_vars

\* C4 witness: a list click on the row of the selected incident, drawer
\* closed: nothing re-renders, and the map was asked to pan again.
C4_Witness ==
    /\ variant = "part_001" /\ lastEvent = "listClick"
    /\ selectedIncident # 0 /\ ~out.render
    /\ out.panTo = incidents[selectedIncident].marker
    /\ infoWindow.open

\* C5: a close notification in state Unselected changes nothing: selection,
\* VisibleSet, drawer and render are unchanged, no re-render, no visibility
\* check and no scroll action is started.
C5_DismissUnselectedNoOp ==
    [][ (lastEvent' = "closeClick" /\ selectedIncident = 0)
          => /\ UNCHANGED << selectedIncident, visibleIncidents, isIncidentListVisible,
                            view, pendingChecks >>
             /\ out' = NoOut ]_vars

\* C5 witness: a close notification was handled and caused no re-render,
\* with the drawer open and a non-empty list.
C5_Witness ==
    /\ lastEvent = "closeClick" /\ ~out.render
    /\ selectedIncident = 0
    /\ isIncidentListVisible /\ visibleIncidents # <<>>

\* C6: after a close notification no incident is selected, no row is
\* highlighted and no detail view is shown; and the selection leaves
\* Unselected only by a marker click or a list click.
C6_DismissLeadsToUnselected ==
    /\ [](lastEvent = "closeClick" =>
            /\ selectedIncident = 0
            /\ \A k \in DOMAIN view.rows : view.rows[k].className = ""
            /\ ~view.detail.shown
            /\ ~infoWindow.open)
    /\ [][ (selectedIncident = 0 /\ selectedIncident' # 0)
              => lastEvent' \in {"markerClick", "listClick"} ]_vars

\* C6 witness: a close notification was handled while an incident was
\* selected (the selection change re-rendered) and its row was in the list.
C6_Witness ==
    /\ lastEvent = "closeClick" /\ out.render
    /\ selectedIncident = 0
    /\ visibleIncidents # <<>>

\* C7: the visible-count label agrees with the size of the VisibleSet in
\* every state, the initial one included: it carries the count, "incident"
\* without "s" exactly when the count is 1 and with "s" otherwise; so does
\* the list heading where it shows the count (part_001, App_1).
C7_Expected ==
    << NumToChars(Len(visibleIncidents)), " incident",
       IF Len(visibleIncidents) = 1 THEN "" ELSE "s", " shown." >>

C7_LabelAgreesWithCount ==
    /\ view.label = C7_Expected
    /\ (view.label[3] = "") <=> (Len(visibleIncidents) = 1)
    /\ variant # "App_2" => view.heading = C7_Expected

\* C7 witness: exactly one incident is visible after a filter run, and the
\* label is in the singular.
C7_Witness ==
    /\ lastEvent = "idle" /\ Len(visibleIncidents) = 1
    /\ view.label = << <<"1">>, " incident", "", " shown." >>

\* The display label of each tag of the closed set.
C8_ExpectedLabel(t) ==
    CASE t = tow_allocation ->
            <<"T", "o", "w", " ", "A", "l", "l", "o", "c", "a", "t", "i", "o", "n">>
      [] t = roadworks -> <<"R", "o", "a", "d", "w", "o", "r", "k", "s">>
      [] t = event -> <<"E", "v", "e", "n", "t">>
      [] t = emergency -> <<"E", "m", "e", "r", "g", "e", "n", "c", "y">>
      [] t = alert -> <<"A", "l", "e", "r", "t">>

\* C8: formatAlertType gives "Tow Allocation" for tow_allocation and the tag
\* with its first letter in upper case for every other tag of the closed
\* set; the labels rendered for the rows of the list and for the detail view
\* are these.
C8_AlertTypeLabels ==
    /\ \A t \in AlertTypes : formatAlertType(t) = C8_ExpectedLabel(t)
    /\ \A k \in DOMAIN view.rows :
          view.rows[k].h2 = C8_ExpectedLabel(incidents[visibleIncidents[k]].alert_type)
    /\ view.detail.shown =>
          view.detail.h2 = C8_ExpectedLabel(incidents[selectedIncident].alert_type)

\* C8 witness: the list shows the row of a tow_allocation incident, labelled
\* "Tow Allocation", next to a row under the generic rule.
C8_Witness ==
    /\ \E k \in DOMAIN view.rows :
          /\ incidents[visibleIncidents[k]].alert_type = tow_allocation
          /\ view.rows[k].h2 = C8_ExpectedLabel(tow_allocation)
    /\ \E k \in DOMAIN view.rows :
          /\ incidents[visibleIncidents[k]].alert_type = roadworks
          /\ view.rows[k].h2 = C8_ExpectedLabel(roadworks)

\* C9: an idle notification that arrives while no map is stored or the map
\* reports no bounds leaves the VisibleSet as it was and raises no error.
C9_SkipSilently ==
    [][ (lastEvent' = "idle" /\ (map = 0 \/ viewport = 0))
          => (visibleIncidents' = visibleIncidents /\ ~out'.threw) ]_vars

\* C10: a list click never decreases the zoom: with a stored map the zoom
\* after the click is max(z, 14), setZoom(14) is called exactly when z < 14
\* and setZoom is not called otherwise.
C10_ZoomNeverDecreases ==
    [][ lastEvent' = "listClick"
          => /\ zoom' >= zoom
             /\ map # 0 =>
                   /\ zoom' = IF zoom >= 14 THEN zoom ELSE 14
                   /\ (out'.setZoom = 14) <=> (zoom < 14)
                   /\ (out'.setZoom = 0) <=> (zoom >= 14)
             /\ map = 0 => (zoom' = zoom /\ out'.setZoom = 0) ]_vars

\* C10 witness: a list click was handled at a zoom above 14: the map was
\* asked to pan, setZoom was not called and the zoom is still above 14.
C10_Witness ==
    /\ lastEvent = "listClick" /\ out.panTo # 0
    /\ out.setZoom = 0 /\ zoom > 14

(***************************************************************************)
(* C11.  A click on a list row selects the row's incident, asks the map to *)
(* pan to that incident's marker and opens the info window anchored on     *)
(* that marker with that incident's content: after the handler the         *)
(* selection is the clicked incident, whatever it was before.              *)
(***************************************************************************)
C11_ListClickSelectsPansOpens ==
    lastEvent = "listClick" =>
        /\ selectedIncident # 0
        /\ out.panTo # 0
        /\ out.panTo = incidents[selectedIncident].marker
        /\ infoWindow.open
        /\ infoWindow.anchor = incidents[selectedIncident].marker
        /\ infoWindow.content = InfoWindowContent(incidents[selectedIncident])

(***************************************************************************)
(* C12.  At most one incident is selected in every reachable state: the    *)
(* selection is a single incident or none, at most one rendered row has    *)
(* the "selected" class, and (where rows carry a class at all: part_001    *)
(* and the first draft) a row has it exactly when its id is the selected   *)
(* incident's id.                                                          *)
(***************************************************************************)
HighlightedRows == {k \in DOMAIN view.rows : view.rows[k].className = "selected"}

C12_AtMostOneSelected ==
    /\ selectedIncident \in 0 .. Len(incidents)
    /\ Cardinality(HighlightedRows) <= 1
    /\ variant # "App_2" =>
         \A k \in DOMAIN view.rows :
            k \in HighlightedRows <=>
               /\ selectedIncident # 0
               /\ incidents[selectedIncident].id = view.rows[k].key

\* Two rows are rendered and exactly one of them is highlighted.
C12_Witness ==
    /\ Len(view.rows) >= 2
    /\ Cardinality(HighlightedRows) = 1
    /\ selectedIncident # 0

(***************************************************************************)
(* C13.  The drawer's open/closed state changes only on the drawer-toggle  *)
(* action: marker clicks, list clicks, dismissals and viewport-settled     *)
(* events leave isIncidentListVisible unchanged.                           *)
(***************************************************************************)
C13_DrawerOnlyByToggle ==
    [][isIncidentListVisible' # isIncidentListVisible => lastEvent' = "toggleDrawer"]_vars

\* C13 as the code has it: besides the toggle, a list click closes the drawer
\* (and nothing but the toggle opens it).
C13_DrawerByToggleOrListClick ==
    [][isIncidentListVisible' # isIncidentListVisible =>
          \/ lastEvent' = "toggleDrawer"
          \/ lastEvent' = "listClick" /\ ~isIncidentListVisible']_vars

\* A list click has been handled and the drawer is rendered closed.
C13_Witness ==
    /\ lastEvent = "listClick"
    /\ out.render
    /\ ~isIncidentListVisible
    /\ view.drawerClass = ""

(***************************************************************************)
(* C14.  When the selection becomes X and X has a row in the list, a       *)
(* scroll to X's row is issued if and only if the row is not already fully *)
(* in view: the decision is taken for every such selection, a scroll is    *)
(* only ever the outcome of a visibility check that found the row not      *)
(* fully in view, and with no row for X nothing is decided or scrolled.    *)
(***************************************************************************)
SelectionEvents == {"markerClick", "listClick"}

C14_ScrollIffNotInView ==
    /\ out.scrollTo # 0 => lastEvent = "visibilityCheck"
    /\ (out.effect \/ out.scrollTo # 0) =>
          \E i \in Stored : HasRow(incidents, visibleIncidents, i)
    /\ (/\ lastEvent \in SelectionEvents
        /\ out.render
        /\ variant \in {"part_001", "App_1"}
        /\ selectedIncident # 0
        /\ HasRow(incidents, visibleIncidents, selectedIncident)) => out.effect

(***************************************************************************)
(* C15.  The result of a row-visibility check started for an earlier       *)
(* selection is discarded when it resolves: no scroll is ever performed    *)
(* for an incident that is not the currently selected one.                 *)
(***************************************************************************)
C15_NoStaleScroll ==
    out.scrollTo # 0 => out.scrollTo = selectedIncident

(***************************************************************************)
(* C16.  An incident whose latitude or longitude does not parse to a       *)
(* finite number is never in the VisibleSet, and its presence does not     *)
(* make the recompute fail: after an idle notification with a viewport the *)
(* handler has not thrown and the other incidents are filtered by the      *)
(* viewport.                                                               *)
(***************************************************************************)
C16_MalformedNeverVisible ==
    \A i \in Stored : ~Finite(incidents[i]) => ~InVisible(i)

C17_StaleClickDismisses ==
    lastEvent = "staleMarkerClick" =>
        /\ selectedIncident = 0
        /\ ~infoWindow.open
        /\ ~view.detail.shown

(***************************************************************************)
(* C18.  The store is never mutated after the initial load: no event adds, *)
(* removes, reorders or alters an incident record, and the ids of the      *)
(* store are pairwise distinct in every reachable state.                   *)
(***************************************************************************)
IdsDistinct(incs) == \A j, k \in DOMAIN incs : j # k => incs[j].id # incs[k].id

C18_StoreNeverMutated ==
    [][incidents' = incidents /\ IdsDistinct(incidents')]_vars

\* The fields of a record that come from incidents.json.
FileData(inc) == [inc EXCEPT !.marker = 0]

\* C18 as the code has it: records are never added, removed or reordered
\* and their fields from the file never change; the one write to the store
\* is the marker handle that the map-load handler attaches to each record.
C18_OnlyMarkersAttached ==
    [][/\ Len(incidents') = Len(incidents)
       /\ \A k \in DOMAIN incidents : FileData(incidents'[k]) = FileData(incidents[k])
       /\ incidents' # incidents =>
             /\ lastEvent' = "mapLoad"
             /\ \A k \in DOMAIN incidents :
                   incidents[k].marker = 0 /\ incidents'[k].marker # 0
       /\ IdsDistinct(incidents')]_vars

\* Markers have been attached, and an idle notification and a click have
\* been handled since.
C18_Witness ==
    /\ \A k \in DOMAIN incidents : incidents[k].marker # 0
    /\ selectedIncident # 0
    /\ visibleIncidents # <<>>
    /\ lastEvent \in {"markerClick", "listClick"}

(***************************************************************************)
(* C19.  No handler acts on an absent map: whenever a list row can be      *)
(* clicked (rows are rendered by the component whose rows have a click     *)
(* handler), the stored map and the marker handles of the rows' incidents  *)
(* are present, also after the map has been unmounted; so no marker or     *)
(* list click handler ever throws.                                         *)
(***************************************************************************)
C19_MapPresentWhenClickable ==
    /\ (variant = "part_001" /\ visibleIncidents # <<>>) =>
          /\ map # 0
          /\ \A k \in DOMAIN visibleIncidents : incidents[visibleIncidents[k]].marker # 0
    /\ lastEvent \in {"markerClick", "listClick"} => ~out.threw

(***************************************************************************)
(* C20.  The detail view is open if and only if an incident X is selected, *)
(* and while it is open its anchor is X's marker and its content is X's    *)
(* category label, title and description: never the anchor or content of   *)
(* an incident selected before.                                            *)
(***************************************************************************)
DetailOpen == IF variant = "part_001" THEN infoWindow.open ELSE view.detail.shown

C20_DetailShowsSelection ==
    /\ DetailOpen <=> selectedIncident # 0
    /\ (DetailOpen /\ selectedIncident # 0) =>
          IF variant = "part_001"
          THEN /\ infoWindow.anchor = incidents[selectedIncident].marker
               /\ infoWindow.content = InfoWindowContent(incidents[selectedIncident])
          ELSE /\ view.detail.anchor = incidents[selectedIncident].marker
               /\ view.detail.h2 = formatAlertType(incidents[selectedIncident].alert_type)
               /\ view.detail.h3 = incidents[selectedIncident].title
               /\ view.detail.p = incidents[selectedIncident].description

(***************************************************************************)
(* C21.  Selection and VisibleSet are updated independently: an idle       *)
(* notification never changes the selection, also when the new VisibleSet  *)
(* no longer holds the selected incident, and the marker-click, dismiss    *)
(* and drawer-toggle handlers never change the VisibleSet.                 *)
(***************************************************************************)
C21_SelectionAndVisibleIndependent ==
    [][/\ lastEvent' = "idle" => selectedIncident' = selectedIncident
       /\ lastEvent' \in {"markerClick", "markerClick:flushSync", "closeClick",
                          "toggleDrawer"}
             => visibleIncidents' = visibleIncidents]_vars

\* An idle notification has recomputed the VisibleSet and the selected
\* incident is not in it.
C21_Witness ==
    /\ lastEvent = "idle" /\ out.render /\ ~out.threw
    /\ map # 0 /\ viewport # 0
    /\ selectedIncident # 0
    /\ ~InVisible(selectedIncident)

(***************************************************************************)
(* C22.  escape(s) replaces every character of s outside [0-9A-Za-z ] by   *)
(* "&#<decimal char code>;" and keeps the other characters, unchanged and  *)
(* in order; so the info window's HTML built from an incident's category   *)
(* label, title and description holds no raw '<', '>', '&' or quote        *)
(* character of those fields.                                              *)
(***************************************************************************)
CodedChars == {"_", "&", "<", ">", "'", "\"", ".", "-"}
CharOfCode(n) == IF \E c \in CodedChars : CharCode(c) = n
                 THEN CHOOSE c \in CodedChars : CharCode(c) = n
                 ELSE "?"

RECURSIVE DecimalValue(_)
DecimalValue(d) == IF d = <<>> THEN 0
                   ELSE 10 * DecimalValue(SubSeq(d, 1, Len(d) - 1)) + DigitVal(d[Len(d)])

\* Reading the escaped text back as a browser does: "&#n;" is the character
\* with code n, any other character is itself.
RECURSIVE DecodeEntities(_)
DecodeEntities(s) ==
    IF s = <<>> THEN <<>>
    ELSE IF Head(s) # "&" THEN <<Head(s)>> \o DecodeEntities(Tail(s))
    ELSE IF \E k \in 4 .. Len(s) :
                /\ s[2] = "#" /\ s[k] = ";"
                /\ \A j \in 3 .. k - 1 : IsDigit(s[j])
         THEN LET k == CHOOSE k \in 4 .. Len(s) :
                          s[k] = ";" /\ \A j \in 3 .. k - 1 : IsDigit(s[j])
              IN  <<CharOfCode(DecimalValue(SubSeq(s, 3, k - 1)))>>
                  \o DecodeEntities(SubSeq(s, k + 1, Len(s)))
         ELSE <<"&">> \o DecodeEntities(Tail(s))

CountOf(s, chars) == Cardinality({k \in DOMAIN s : s[k] \in chars})

\* html is text with exactly its characters outside [0-9A-Za-z ] replaced by
\* entities.
EscapedAs(text, html) ==
    /\ DecodeEntities(html) = text
    /\ CountOf(html, {"<", ">", "'", "\""}) = 0
    /\ CountOf(html, {"&"}) = Cardinality({k \in DOMAIN text : ~IsPlain(text[k])})
    /\ CountOf(html, PlainSet \ DigitSet) = CountOf(text, PlainSet \ DigitSet)

C22_EscapeNeutralisesMarkup ==
    infoWindow.content # NoContent =>
        /\ EscapedAs(formatAlertType(incidents[1].alert_type), infoWindow.content.h2)
        /\ EscapedAs(incidents[1].title, infoWindow.content.h3)
        /\ EscapedAs(incidents[1].description, infoWindow.content.p)

\* The info window is open on an incident whose title has markup and a
\* quote and whose description has an ampersand.
C22_Witness ==
    /\ infoWindow.open
    /\ selectedIncident = 1
    /\ incidents[1].title = <<"<", "\"">>
    /\ incidents[1].description = <<"&", "a">>
    /\ infoWindow.content.h3 =
          <<"&", "#", "6", "0", ";", "&", "#", "3", "4", ";">>
    /\ infoWindow.content.p = <<"&", "#", "3", "8", ";", "a">>

====
